---- MODULE Spec2Model ----
(***************************************************************************)
(* logseq_searcher: the document table, the vault loader, the embedding    *)
(* backfill and the query engine, as a state machine.                      *)
(*                                                                         *)
(* A call runs as a sequence of steps (connect, query the embedding        *)
(* service, execute statements, commit, progress callback); every step     *)
(* that touches the storage layer, the embedding service or the callback   *)
(* can raise.  A connection holds its uncommitted changes in `pending`;    *)
(* they reach `documents` only by commit and are dropped by close.         *)
(* A row is its doc_type and its embedding: filename, title and content    *)
(* are written once by INSERT and read by no branch of the code.           *)
(***************************************************************************)
EXTENDS Integers, Sequences, FiniteSets, TLC

\* ---------------------------------------------------------------- bounds
MaxDocs == 3        \* rows the document table may hold
MaxFiles == 2       \* files in one vault directory
MaxBatch == 2       \* batch_size ranges over 1..MaxBatch
NumVectors == 1     \* distinct vectors the embedding service may answer
MaxCorpus == 2      \* rows of a corpus that hybrid_search is applied to
MaxRank == 1        \* ts_rank of a lexical match ranges over 1..MaxRank (tenths)

\* ------------------------------------------------------------- constants
NULL == 0           \* SQL NULL in the embedding column
Vectors == 1..NumVectors
DocTypes == {"page", "journal"}
SimilarityFloor == 3    \* s.similarity > 0.3, in tenths

VARIABLES
    documents,          \* committed rows of table documents, in id order (id = position)
    hasEmbeddingCol,    \* the table has an embedding column
    pc,                 \* position of the thread of control
    op,                 \* the public call in progress (or the last one): name and arguments
    conn,               \* connections currently open
    pending,            \* uncommitted changes of the open connection
    all_documents,      \* load_logseq_vault: pages + journals
    lens,               \* load_logseq_vault: len(pages), len(journals)
    batch,              \* insert_documents: its documents argument
    i,                  \* load_logseq_vault: loop index
    total,              \* load_logseq_vault / add_embeddings_to_existing: total
    processed,          \* add_embeddings_to_existing: processed
    rows,               \* add_embeddings_to_existing: ids of the fetched rows
    embeddings,         \* vectors answered by generate_embeddings
    cbLog,              \* progress_callback invocations of this call, in order
    outcome,            \* "none" while running, then "returned" or "raised"
    ret,                \* value returned by the call
    docs0,              \* history: documents when the call started
    opened,             \* history: connections opened by this call
    fetches,            \* history: batch SELECTs issued by this call
    embedCalls,         \* history: generate_embeddings requests of this call
    afterBackfill,      \* history: the call before this one was add_embeddings_to_existing
                        \* and it returned
    second,             \* a second process running add_embeddings_to_existing on the
                        \* same table: its position, arguments, locals and transaction
    writes              \* history: per id, the committed UPDATEs of its embedding

vars == <<documents, hasEmbeddingCol, pc, op, conn, pending, all_documents, lens, batch, i,
          total, processed, rows, embeddings, cbLog, outcome, ret, docs0, opened,
          fetches, embedCalls, afterBackfill, second, writes>>

locals == <<all_documents, lens, batch, i, total, processed, rows, embeddings>>

\* ---------------------------------------------------------------- helpers
Min(a, b) == IF a <= b THEN a ELSE b

\* ids (positions) of the rows of table t whose embedding IS NULL, ascending
NullIds(t) == SelectSeq([k \in 1..Len(t) |-> k], LAMBDA k : t[k].embedding = NULL)

\* SELECT COUNT(*) FROM documents WHERE embedding IS NULL
CountAllRows(t) == Len(t)
CountNull(t) == Len(NullIds(t))

\* SELECT id ... WHERE embedding IS NULL ORDER BY id LIMIT n
FetchSkipLocked(t, n) ==
    LET inFlight == {"bf_embed", "bf_update", "bf_commit"}
        held == {rows[k] : k \in {j \in 1..Len(rows) : pc \in inFlight}}
                \cup {second.rows[k] :
                         k \in {j \in 1..Len(second.rows) : second.pc \in inFlight}}
        free == SelectSeq(NullIds(t), LAMBDA id : id \notin held)
    IN  SubSeq(free, 1, Min(n, Len(free)))
FetchAnyRows(t, n) == SubSeq([k \in 1..Len(t) |-> k], 1, Min(n, Len(t)))
FetchBatch(t, n) == SubSeq(NullIds(t), 1, Min(n, Len(NullIds(t))))

\* processed += len(rows)
ProcessedPlusBatchSize(p, rs, b) == p + b
Processed(p, rs, b) == p + Len(rs)

\* batch = all_documents[i:i + batch_size]
ChunkShort(docs, k, b) == SubSeq(docs, k + 1, Min(k + b, Len(docs)) - 1)
Chunk(docs, k, b) == SubSeq(docs, k + 1, Min(k + b, Len(docs)))

\* min(i + batch_size, total), the first argument of the load's progress callback
LoadProgressNoMin(k, b, n) == k + b
LoadProgress(k, b, n) == Min(k + b, n)

\* generate_embeddings(texts): one vector per input text, in input order
EmbeddingAnswers(n) == [1..n -> Vectors]

\* for row, embedding in zip(rows, embeddings): UPDATE ... SET embedding WHERE id
ZipUpdates(rs, es) ==
    [k \in 1..Min(Len(rs), Len(es)) |->
        [kind |-> "update", id |-> rs[k], embedding |-> es[k]]]

\* data = [(filename, doc_type, title, content, emb) for doc, emb in zip(documents, embeddings)]
\* INSERT INTO documents (filename, doc_type, title, content, embedding)
ZipInserts(ds, es) ==
    [k \in 1..Min(Len(ds), Len(es)) |->
        [kind |-> "insert",
         row |-> [doc_type |-> ds[k].doc_type, embedding |-> es[k]]]]

\* INSERT INTO documents (filename, doc_type, title, content): embedding stays NULL
PlainInserts(ds) ==
    [k \in 1..Len(ds) |->
        [kind |-> "insert",
         row |-> [doc_type |-> ds[k].doc_type, embedding |-> NULL]]]

\* the table with a transaction's statements applied, in order
RECURSIVE ApplyChanges(_, _)
ApplyChanges(t, cs) ==
    IF cs = <<>> THEN t
    ELSE LET c == Head(cs) IN
         ApplyChanges(CASE c.kind = "insert" -> Append(t, c.row)
                        [] c.kind = "update" -> [t EXCEPT ![c.id].embedding = c.embedding]
                        [] c.kind = "recreate" -> <<>>,
                      Tail(cs))

\* conn.commit()
Commit(t, pend) == ApplyChanges(t, pend)

\* conn.close() without commit: the uncommitted changes are dropped
CloseCommits(t, pend) == ApplyChanges(t, pend)
CloseUncommitted(t, pend) == t

\* the ids a transaction's UPDATE statements have written; the engine keeps each
\* such row locked against other writers until the transaction ends
UpdatedIds(pend) == {pend[k].id : k \in {j \in 1..Len(pend) : pend[j].kind = "update"}}

\* UPDATE documents SET embedding = ... WHERE id = ... waits while another
\* transaction holds an uncommitted write of one of the rows
RowsLocked(rs, pend) == \E k \in 1..Len(rs) : rs[k] \in UpdatedIds(pend)

\* history of the committed UPDATEs
NoWrites == [id \in 1..MaxDocs |-> 0]
Written(w, pend) ==
    [id \in 1..MaxDocs |->
        w[id] + Cardinality({k \in 1..Len(pend) :
                                pend[k].kind = "update" /\ pend[k].id = id})]

\* load_markdown_files(directory, doc_type): one draft per readable *.md file; a
\* file whose read raises is printed and skipped.  A directory is the sequence of
\* its files' readable flags.
LoadMarkdownFiles(directory, doc_type) ==
    LET readable == SelectSeq([k \in 1..Len(directory) |-> k], LAMBDA k : directory[k])
    IN  [j \in 1..Len(readable) |-> [doc_type |-> doc_type]]

\* SELECT doc_type, COUNT(*) FROM documents GROUP BY doc_type, as a dict
GetDocumentCount(t) ==
    [d \in {t[k].doc_type : k \in 1..Len(t)} |->
        Cardinality({k \in 1..Len(t) : t[k].doc_type = d})]

\* ------------------------------------------------------------------ calls
NoOp == [name |-> "none", with_embeddings |-> FALSE, batch_size |-> 1, cb |-> FALSE]

\* the second process before its call
SecondIdle ==
    [pc |-> "idle", batch_size |-> 1, cb |-> FALSE, total |-> 0, processed |-> 0,
     rows |-> <<>>, embeddings |-> <<>>, pending |-> <<>>, outcome |-> "none"]

\* a public call begins: its locals and its history are fresh
Begin(o) ==
    /\ pc = "idle"
    /\ op' = o
    /\ outcome' = "none"
    /\ ret' = <<>>
    /\ cbLog' = <<>>
    /\ docs0' = documents
    /\ opened' = 0
    /\ fetches' = 0
    /\ embedCalls' = 0
    /\ pending' = <<>>
    /\ UNCHANGED afterBackfill

\* the call ends by an exception raised with pend uncommitted; the finally
\* clause closes an open connection
RaiseLeaks(pend) ==
    /\ pc' = "done"
    /\ outcome' = "raised"
    /\ documents' = CloseUncommitted(documents, pend)
    /\ pending' = <<>>
    /\ conn' = conn
RaiseWith(pend) ==
    /\ pc' = "done"
    /\ outcome' = "raised"
    /\ documents' = CloseUncommitted(documents, pend)
    /\ pending' = <<>>
    /\ conn' = 0

Raise == RaiseWith(pending)

\* the call ends by return; the finally clause closes an open connection
Return(v) ==
    /\ pc' = "done"
    /\ outcome' = "returned"
    /\ ret' = v
    /\ documents' = CloseUncommitted(documents, pending)
    /\ pending' = <<>>
    /\ conn' = 0

\* get_connection(): psycopg2.connect answers a connection or raises
Connect(next) ==
    \E ok \in BOOLEAN :
        IF ok
        THEN /\ conn' = conn + 1
             /\ opened' = opened + 1
             /\ pc' = next
             /\ UNCHANGED <<documents, pending, outcome>>
        ELSE /\ Raise
             /\ UNCHANGED opened

\* ------------------------------------------------------ insert_documents
Drafts == [doc_type : DocTypes]
DraftLists == UNION {[1..n -> Drafts] : n \in 0..MaxFiles}

\* insert_documents(documents, with_embeddings) called by the user
InsertDocuments ==
    /\ \E ds \in DraftLists, we \in BOOLEAN :
          /\ Len(documents) + Len(ds) <= MaxDocs
          /\ Begin([name |-> "insert_documents", with_embeddings |-> we,
                    batch_size |-> 1, cb |-> FALSE])
          /\ batch' = ds
    /\ pc' = "ins_enter"
    /\ all_documents' = <<>> /\ lens' = <<0, 0>> /\ i' = 0 /\ total' = 0
    /\ embeddings' = <<>>
    /\ UNCHANGED <<documents, hasEmbeddingCol, conn, processed, rows>>
    /\ UNCHANGED <<second, writes>>

\* insert_documents returned to its caller
AfterInsert ==
    IF op.name = "load_logseq_vault"
    THEN /\ pc' = IF op.cb THEN "load_callback"
                  ELSE IF op.with_embeddings THEN "load_loop" ELSE "load_return"
         /\ i' = IF op.with_embeddings /\ ~op.cb THEN i + op.batch_size ELSE i
         /\ UNCHANGED <<outcome, ret>>
    ELSE /\ pc' = "done"
         /\ outcome' = "returned"
         /\ ret' = <<>>
         /\ UNCHANGED i

\* if not documents: return
InsertEnter ==
    /\ pc = "ins_enter"
    /\ IF batch = <<>>
       THEN AfterInsert
       ELSE /\ pc' = "ins_connect"
            /\ UNCHANGED <<i, outcome, ret>>
    /\ UNCHANGED <<documents, hasEmbeddingCol, op, conn, pending, all_documents, lens, batch,
                   total, processed, rows, embeddings, cbLog, docs0, opened, fetches,
                   embedCalls, afterBackfill>>
    /\ UNCHANGED <<second, writes>>

InsertConnect ==
    /\ pc = "ins_connect"
    /\ Connect(IF op.with_embeddings THEN "ins_embed" ELSE "ins_insert")
    /\ UNCHANGED <<hasEmbeddingCol, op, locals, cbLog, ret, docs0, fetches, embedCalls, afterBackfill>>
    /\ UNCHANGED <<second, writes>>

\* embeddings = generate_embeddings(texts)
InsertEmbed ==
    /\ pc = "ins_embed"
    /\ embedCalls' = embedCalls + 1
    /\ \E ok \in BOOLEAN :
          IF ok
          THEN /\ \E es \in EmbeddingAnswers(Len(batch)) : embeddings' = es
               /\ pc' = "ins_insert"
               /\ UNCHANGED <<documents, pending, conn, outcome>>
          ELSE /\ Raise
               /\ UNCHANGED embeddings
    /\ UNCHANGED <<hasEmbeddingCol, op, all_documents, lens, batch, i, total, processed, rows,
                   cbLog, ret, docs0, opened, fetches, afterBackfill>>
    /\ UNCHANGED <<second, writes>>

\* execute_values(cur, "INSERT INTO documents ...", data); a statement may raise
InsertExecute ==
    /\ pc = "ins_insert"
    /\ \E ok \in BOOLEAN :
          IF ok /\ (op.with_embeddings => hasEmbeddingCol)
          THEN /\ pending' = IF op.with_embeddings
                             THEN ZipInserts(batch, embeddings)
                             ELSE PlainInserts(batch)
               /\ pc' = "ins_commit"
               /\ UNCHANGED <<documents, conn, outcome>>
          ELSE Raise
    /\ UNCHANGED <<hasEmbeddingCol, op, locals, cbLog, ret, docs0, opened, fetches, embedCalls,
                   afterBackfill>>
    /\ UNCHANGED <<second, writes>>

\* conn.commit()
InsertCommit ==
    /\ pc = "ins_commit"
    /\ \E ok \in BOOLEAN :
          IF ok
          THEN /\ documents' = Commit(documents, pending)
               /\ pending' = <<>>
               /\ pc' = "ins_close"
               /\ UNCHANGED <<conn, outcome>>
          ELSE Raise
    /\ UNCHANGED <<hasEmbeddingCol, op, locals, cbLog, ret, docs0, opened, fetches, embedCalls,
                   afterBackfill>>
    /\ UNCHANGED <<second, writes>>

\* finally: conn.close(), and back to the caller
InsertClose ==
    /\ pc = "ins_close"
    /\ conn' = conn - 1
    /\ documents' = CloseUncommitted(documents, pending)
    /\ pending' = <<>>
    /\ AfterInsert
    /\ UNCHANGED <<hasEmbeddingCol, op, all_documents, lens, batch, total, processed, rows,
                   embeddings, cbLog, docs0, opened, fetches, embedCalls, afterBackfill>>
    /\ UNCHANGED <<second, writes>>

\* ----------------------------------------------------- load_logseq_vault
Directories == UNION {[1..n -> BOOLEAN] : n \in 0..MaxFiles}

\* pages, journals, all_documents, total; then the chunk loop or the single insert
LoadLogseqVault ==
    /\ \E pages \in {LoadMarkdownFiles(d, "page") : d \in Directories},
          journals \in {LoadMarkdownFiles(d, "journal") : d \in Directories},
          we \in BOOLEAN, b \in 1..MaxBatch, cb \in BOOLEAN :
              /\ Len(documents) + Len(pages) + Len(journals) <= MaxDocs
              /\ Begin([name |-> "load_logseq_vault", with_embeddings |-> we,
                        batch_size |-> b, cb |-> cb])
              /\ all_documents' = pages \o journals
              /\ lens' = <<Len(pages), Len(journals)>>
              /\ total' = Len(pages) + Len(journals)
              /\ pc' = IF we THEN "load_loop" ELSE "ins_enter"
              /\ batch' = IF we THEN <<>> ELSE pages \o journals
    /\ i' = 0
    /\ embeddings' = <<>>
    /\ UNCHANGED <<documents, hasEmbeddingCol, conn, processed, rows>>
    /\ UNCHANGED <<second, writes>>

\* for i in range(0, total, batch_size): batch = all_documents[i:i + batch_size]
LoadLoop ==
    /\ pc = "load_loop"
    /\ IF i < total
       THEN /\ batch' = Chunk(all_documents, i, op.batch_size)
            /\ pc' = "ins_enter"
            /\ UNCHANGED <<outcome, ret>>
       ELSE /\ pc' = "done"
            /\ outcome' = "returned"
            /\ ret' = [pages |-> lens[1], journals |-> lens[2], total |-> total]
            /\ UNCHANGED batch
    /\ UNCHANGED <<documents, hasEmbeddingCol, op, conn, pending, all_documents, lens, i,
                   total, processed, rows, embeddings, cbLog, docs0, opened, fetches,
                   embedCalls, afterBackfill>>
    /\ UNCHANGED <<second, writes>>

\* progress_callback(min(i + batch_size, total), total), or (total, total) after
\* the single insert; the callback may raise
LoadCallback ==
    /\ pc = "load_callback"
    /\ cbLog' = Append(cbLog, IF op.with_embeddings
                              THEN <<LoadProgress(i, op.batch_size, total), total>>
                              ELSE <<total, total>>)
    /\ \E ok \in BOOLEAN :
          IF ok
          THEN /\ pc' = IF op.with_embeddings THEN "load_loop" ELSE "load_return"
               /\ i' = IF op.with_embeddings THEN i + op.batch_size ELSE i
               /\ UNCHANGED <<documents, pending, conn, outcome>>
          ELSE /\ Raise
               /\ UNCHANGED i
    /\ UNCHANGED <<hasEmbeddingCol, op, all_documents, lens, batch, total, processed, rows,
                   embeddings, ret, docs0, opened, fetches, embedCalls, afterBackfill>>
    /\ UNCHANGED <<second, writes>>

\* return {'pages': len(pages), 'journals': len(journals), 'total': total}
LoadReturn ==
    /\ pc = "load_return"
    /\ pc' = "done"
    /\ outcome' = "returned"
    /\ ret' = [pages |-> lens[1], journals |-> lens[2], total |-> total]
    /\ UNCHANGED <<documents, hasEmbeddingCol, op, conn, pending, locals, cbLog, docs0, opened,
                   fetches, embedCalls, afterBackfill>>
    /\ UNCHANGED <<second, writes>>

\* ------------------------------------------- add_embeddings_to_existing
AddEmbeddingsToExisting ==
    /\ \E b \in 1..MaxBatch, cb \in BOOLEAN :
          Begin([name |-> "add_embeddings_to_existing", with_embeddings |-> TRUE,
                 batch_size |-> b, cb |-> cb])
    /\ pc' = "bf_connect"
    /\ total' = 0 /\ processed' = 0 /\ rows' = <<>> /\ embeddings' = <<>>
    /\ UNCHANGED <<documents, hasEmbeddingCol, conn, all_documents, lens, batch, i>>
    /\ UNCHANGED <<second, writes>>

BackfillConnect ==
    /\ pc = "bf_connect"
    /\ Connect("bf_count")
    /\ UNCHANGED <<hasEmbeddingCol, op, locals, cbLog, ret, docs0, fetches, embedCalls, afterBackfill>>
    /\ UNCHANGED <<second, writes>>

\* SELECT COUNT(*) ... WHERE embedding IS NULL; if total == 0: return
BackfillCount ==
    /\ pc = "bf_count"
    /\ \E ok \in BOOLEAN :
          IF ok /\ hasEmbeddingCol
          THEN IF CountNull(documents) = 0
               THEN /\ Return(<<>>)
                    /\ UNCHANGED total
               ELSE /\ total' = CountNull(documents)
                    /\ pc' = "bf_fetch"
                    /\ UNCHANGED <<documents, pending, conn, outcome, ret>>
          ELSE /\ Raise
               /\ UNCHANGED <<total, ret>>
    /\ UNCHANGED <<hasEmbeddingCol, op, all_documents, lens, batch, i, processed, rows, embeddings,
                   cbLog, docs0, opened, fetches, embedCalls, afterBackfill>>
    /\ UNCHANGED <<second, writes>>

\* the batch SELECT; if not rows: break
BackfillFetch ==
    /\ pc = "bf_fetch"
    /\ fetches' = fetches + 1
    /\ \E ok \in BOOLEAN :
          IF ok
          THEN /\ LET rs == FetchBatch(documents, op.batch_size) IN
                    IF rs = <<>>
                    THEN /\ Return(<<>>)
                         /\ UNCHANGED rows
                    ELSE /\ rows' = rs
                         /\ pc' = "bf_embed"
                         /\ UNCHANGED <<documents, pending, conn, outcome, ret>>
          ELSE /\ Raise
               /\ UNCHANGED <<rows, ret>>
    /\ UNCHANGED <<hasEmbeddingCol, op, all_documents, lens, batch, i, total, processed, embeddings,
                   cbLog, docs0, opened, embedCalls, afterBackfill>>
    /\ UNCHANGED <<second, writes>>

\* embeddings = generate_embeddings(texts)
BackfillEmbed ==
    /\ pc = "bf_embed"
    /\ embedCalls' = embedCalls + 1
    /\ \E ok \in BOOLEAN :
          IF ok
          THEN /\ \E es \in EmbeddingAnswers(Len(rows)) : embeddings' = es
               /\ pc' = "bf_update"
               /\ UNCHANGED <<documents, pending, conn, outcome, ret>>
          ELSE /\ Raise
               /\ UNCHANGED <<embeddings, ret>>
    /\ UNCHANGED <<hasEmbeddingCol, op, all_documents, lens, batch, i, total, processed, rows,
                   cbLog, docs0, opened, fetches, afterBackfill>>
    /\ UNCHANGED <<second, writes>>

\* the UPDATE loop over zip(rows, embeddings); a statement may raise part way
BackfillUpdate ==
    /\ pc = "bf_update"
    /\ ~RowsLocked(rows, second.pending)
    /\ \E done \in 0..Len(rows) :
          IF done = Len(rows)
          THEN /\ pending' = ZipUpdates(rows, embeddings)
               /\ pc' = "bf_commit"
               /\ UNCHANGED <<documents, conn, outcome, ret>>
          ELSE /\ RaiseWith(SubSeq(ZipUpdates(rows, embeddings), 1, done))
               /\ UNCHANGED ret
    /\ UNCHANGED <<hasEmbeddingCol, op, locals, cbLog, docs0, opened, fetches, embedCalls,
                   afterBackfill>>
    /\ UNCHANGED <<second, writes>>

\* conn.commit(); processed += len(rows)
BackfillCommit ==
    /\ pc = "bf_commit"
    /\ \E ok \in BOOLEAN :
          IF ok
          THEN /\ documents' = Commit(documents, pending)
               /\ writes' = Written(writes, pending)
               /\ pending' = <<>>
               /\ processed' = Processed(processed, rows, op.batch_size)
               /\ pc' = IF op.cb THEN "bf_callback" ELSE "bf_fetch"
               /\ UNCHANGED <<conn, outcome, ret>>
          ELSE /\ Raise
               /\ UNCHANGED <<processed, ret, writes>>
    /\ UNCHANGED <<hasEmbeddingCol, op, all_documents, lens, batch, i, total, rows, embeddings,
                   cbLog, docs0, opened, fetches, embedCalls, afterBackfill, second>>

\* progress_callback(processed, total); the callback may raise
BackfillCallback ==
    /\ pc = "bf_callback"
    /\ cbLog' = Append(cbLog, <<processed, total>>)
    /\ \E ok \in BOOLEAN :
          IF ok
          THEN /\ pc' = "bf_fetch"
               /\ UNCHANGED <<documents, pending, conn, outcome, ret>>
          ELSE /\ Raise
               /\ UNCHANGED ret
    /\ UNCHANGED <<hasEmbeddingCol, op, locals, docs0, opened, fetches, embedCalls, afterBackfill>>
    /\ UNCHANGED <<second, writes>>

\* ------------------- add_embeddings_to_existing, run by a second process
\* what a step of the second process leaves alone: the first process
firstCall == <<hasEmbeddingCol, pc, op, conn, pending, locals, cbLog, outcome, ret, docs0,
               opened, fetches, embedCalls, afterBackfill>>

\* the second run ends by an exception: finally closes its connection, and its
\* uncommitted UPDATEs are dropped
SecondRaise ==
    second' = [second EXCEPT !.pc = "done", !.outcome = "raised", !.pending = <<>>]

\* the second run returns: finally closes its connection
SecondReturn ==
    second' = [second EXCEPT !.pc = "done", !.outcome = "returned", !.pending = <<>>]

SecondAddEmbeddingsToExisting ==
    /\ second.pc = "idle"
    /\ \E b \in 1..MaxBatch, cb \in BOOLEAN :
          second' = [SecondIdle EXCEPT !.pc = "bf_connect", !.batch_size = b, !.cb = cb]
    /\ UNCHANGED <<documents, writes, firstCall>>

\* conn = get_connection()
SecondConnect ==
    /\ second.pc = "bf_connect"
    /\ \E ok \in BOOLEAN :
          IF ok THEN second' = [second EXCEPT !.pc = "bf_count"] ELSE SecondRaise
    /\ UNCHANGED <<documents, writes, firstCall>>

\* SELECT COUNT(*) ... WHERE embedding IS NULL; if total == 0: return
SecondCount ==
    /\ second.pc = "bf_count"
    /\ \E ok \in BOOLEAN :
          IF ok /\ hasEmbeddingCol
          THEN IF CountNull(documents) = 0
               THEN SecondReturn
               ELSE second' = [second EXCEPT !.total = CountNull(documents),
                                             !.pc = "bf_fetch"]
          ELSE SecondRaise
    /\ UNCHANGED <<documents, writes, firstCall>>

\* the batch SELECT, over the committed rows; if not rows: break
SecondFetch ==
    /\ second.pc = "bf_fetch"
    /\ \E ok \in BOOLEAN :
          IF ok
          THEN LET rs == FetchBatch(documents, second.batch_size) IN
                 IF rs = <<>>
                 THEN SecondReturn
                 ELSE second' = [second EXCEPT !.rows = rs, !.pc = "bf_embed"]
          ELSE SecondRaise
    /\ UNCHANGED <<documents, writes, firstCall>>

\* embeddings = generate_embeddings(texts)
SecondEmbed ==
    /\ second.pc = "bf_embed"
    /\ \E ok \in BOOLEAN :
          IF ok
          THEN \E es \in EmbeddingAnswers(Len(second.rows)) :
                  second' = [second EXCEPT !.embeddings = es, !.pc = "bf_update"]
          ELSE SecondRaise
    /\ UNCHANGED <<documents, writes, firstCall>>

\* the UPDATE loop over zip(rows, embeddings); a statement may raise part way
SecondUpdate ==
    /\ second.pc = "bf_update"
    /\ ~RowsLocked(second.rows, pending)
    /\ \E done \in 0..Len(second.rows) :
          IF done = Len(second.rows)
          THEN second' = [second EXCEPT
                             !.pending = ZipUpdates(second.rows, second.embeddings),
                             !.pc = "bf_commit"]
          ELSE SecondRaise
    /\ UNCHANGED <<documents, writes, firstCall>>

\* conn.commit(); processed += len(rows)
SecondCommit ==
    /\ second.pc = "bf_commit"
    /\ \E ok \in BOOLEAN :
          IF ok
          THEN /\ documents' = Commit(documents, second.pending)
               /\ writes' = Written(writes, second.pending)
               /\ second' = [second EXCEPT
                                !.pending = <<>>,
                                !.processed = Processed(second.processed, second.rows,
                                                        second.batch_size),
                                !.pc = IF second.cb THEN "bf_callback" ELSE "bf_fetch"]
          ELSE /\ SecondRaise
               /\ UNCHANGED <<documents, writes>>
    /\ UNCHANGED firstCall

\* progress_callback(processed, total); the callback may raise
SecondCallback ==
    /\ second.pc = "bf_callback"
    /\ \E ok \in BOOLEAN :
          IF ok THEN second' = [second EXCEPT !.pc = "bf_fetch"] ELSE SecondRaise
    /\ UNCHANGED <<documents, writes, firstCall>>

\* ------------------------------------------------------------ the queries
ReadOps == {"search", "advanced_search", "get_document", "get_document_count",
            "semantic_search", "hybrid_search"}

\* semantic_search and hybrid_search call generate_embedding(query) first
EmbedsQuery(name) == name \in {"semantic_search", "hybrid_search"}

\* a query function is called by the user
Query ==
    /\ \E name \in ReadOps :
          /\ Begin([name |-> name, with_embeddings |-> EmbedsQuery(name),
                    batch_size |-> 1, cb |-> FALSE])
          /\ pc' = IF EmbedsQuery(name) THEN "q_embed" ELSE "q_connect"
    /\ UNCHANGED <<documents, hasEmbeddingCol, conn, locals>>
    /\ UNCHANGED <<second, writes>>

\* query_embedding = generate_embedding(query), before any connection is opened
QueryEmbed ==
    /\ pc = "q_embed"
    /\ embedCalls' = embedCalls + 1
    /\ \E ok \in BOOLEAN :
          IF ok
          THEN /\ pc' = "q_connect"
               /\ UNCHANGED <<documents, pending, conn, outcome>>
          ELSE Raise
    /\ UNCHANGED <<hasEmbeddingCol, op, locals, cbLog, ret, docs0, opened, fetches,
                   afterBackfill>>
    /\ UNCHANGED <<second, writes>>

QueryConnect ==
    /\ pc = "q_connect"
    /\ Connect("q_execute")
    /\ UNCHANGED <<hasEmbeddingCol, op, locals, cbLog, ret, docs0, fetches, embedCalls,
                   afterBackfill>>
    /\ UNCHANGED <<second, writes>>

\* cur.execute(sql, params) and the return of the fetched rows; the rows a search
\* answers are those of HybridSearch and its siblings, not kept here
QueryExecute ==
    /\ pc = "q_execute"
    /\ \E ok \in BOOLEAN :
          IF ok /\ (EmbedsQuery(op.name) => hasEmbeddingCol)
          THEN \E doc_id \in 1..MaxDocs :
                  Return(CASE op.name = "get_document_count" -> GetDocumentCount(documents)
                           [] op.name = "get_document" ->
                                IF doc_id <= Len(documents)
                                THEN <<documents[doc_id].doc_type>> ELSE <<>>
                           [] OTHER -> <<>>)
          ELSE /\ Raise
               /\ UNCHANGED ret
    /\ UNCHANGED <<hasEmbeddingCol, op, locals, cbLog, docs0, opened, fetches, embedCalls,
                   afterBackfill>>
    /\ UNCHANGED <<second, writes>>

\* ---------------------------------------------------------- hybrid_search
\* The SQL of hybrid_search as a function of the table and of what the query
\* makes of each row: lex[id] is ts_rank when content_tsv @@ plainto_tsquery
\* (NoMatch otherwise), sim[id] is 1 - (embedding <=> query_embedding) of a row
\* whose embedding is not NULL.  Scores are in tenths, weights in tenths,
\* combined_score in hundredths.
NoMatch == -1
Ranks == 1..MaxRank
Similarities == {0, SimilarityFloor, SimilarityFloor + 1}
Weights == {<<5, 5>>, <<10, 0>>, <<0, 10>>}
NoDocType == "None"

\* fts_results: the rows with a lexical match
FtsIds(t, lex) == {id \in 1..Len(t) : lex[id] # NoMatch}

\* semantic_results: WHERE embedding IS NOT NULL
SemanticIds(t) == {id \in 1..Len(t) : t[id].embedding # NULL}

\* COALESCE(f.fts_rank, 0), COALESCE(s.similarity, 0)
FtsRank(t, lex, id) == IF id \in FtsIds(t, lex) THEN lex[id] ELSE 0
Similarity(t, sim, id) == IF id \in SemanticIds(t) THEN sim[id] ELSE 0

CombinedScore(t, lex, sim, id, w) ==
    FtsRank(t, lex, id) * w[1] + Similarity(t, sim, id) * w[2]

\* WHERE f.id IS NOT NULL OR s.similarity > 0.3 [AND d.doc_type = %s]:
\* AND binds tighter than OR, and a NULL similarity compares as not true
NoSimilarityFloor(t, lex, sim, id, doc_type) ==
    \/ id \in FtsIds(t, lex)
    \/ /\ id \in SemanticIds(t)
       /\ doc_type # NoDocType => t[id].doc_type = doc_type
CombinedWhere(t, lex, sim, id, doc_type) ==
    \/ id \in FtsIds(t, lex)
    \/ /\ id \in SemanticIds(t) /\ sim[id] > SimilarityFloor
       /\ doc_type # NoDocType => t[id].doc_type = doc_type

CombinedIds(t, lex, sim, doc_type) ==
    {id \in 1..Len(t) : CombinedWhere(t, lex, sim, id, doc_type)}

\* ORDER BY combined_score DESC: every order of the rows that is descending
Orders(t, lex, sim, doc_type, w) ==
    LET ids == CombinedIds(t, lex, sim, doc_type)
        n == Cardinality(ids)
    IN  {o \in [1..n -> ids] :
            /\ \A a, b \in 1..n : a # b => o[a] # o[b]
            /\ \A a, b \in 1..n : a < b =>
                  CombinedScore(t, lex, sim, o[a], w) >= CombinedScore(t, lex, sim, o[b], w)}

\* LIMIT %s, and the dicts built from the fetched rows
HybridRows(t, lex, sim, w, o, limit) ==
    [k \in 1..Min(limit, Len(o)) |->
        [id |-> o[k], doc_type |-> t[o[k]].doc_type,
         combined_score |-> CombinedScore(t, lex, sim, o[k], w),
         fts_rank |-> FtsRank(t, lex, o[k]),
         similarity |-> Similarity(t, sim, o[k])]]

\* hybrid_search(query, limit, doc_type, fts_weight, semantic_weight) answers
HybridSearch ==
    /\ pc = "idle"
    /\ \E lex \in [1..Len(documents) -> Ranks \cup {NoMatch}],
          sim \in [1..Len(documents) -> Similarities],
          limit \in 0..MaxCorpus,
          doc_type \in DocTypes \cup {NoDocType},
          w \in Weights :
          /\ \A id \in 1..Len(documents) :
                documents[id].embedding = NULL => sim[id] = 0
          /\ \E o \in Orders(documents, lex, sim, doc_type, w) :
                ret' = HybridRows(documents, lex, sim, w, o, limit)
          /\ op' = [name |-> "hybrid_search", lex |-> lex, sim |-> sim, limit |-> limit,
                    doc_type |-> doc_type, fts_weight |-> w[1], semantic_weight |-> w[2]]
    /\ pc' = "done"
    /\ outcome' = "returned"
    /\ UNCHANGED <<documents, hasEmbeddingCol, conn, pending, locals, cbLog, docs0, opened,
                   fetches, embedCalls, afterBackfill>>
    /\ UNCHANGED <<second, writes>>

\* ---------------------------------------------------------- create_schema
CreateSchema ==
    /\ Begin([name |-> "create_schema", with_embeddings |-> FALSE,
              batch_size |-> 1, cb |-> FALSE])
    /\ pc' = "cs_connect"
    /\ UNCHANGED <<documents, hasEmbeddingCol, conn, locals>>
    /\ UNCHANGED <<second, writes>>

\* get_cursor: conn = get_connection()
SchemaConnect ==
    /\ pc = "cs_connect"
    /\ Connect("cs_execute")
    /\ UNCHANGED <<hasEmbeddingCol, op, locals, cbLog, ret, docs0, fetches, embedCalls,
                   afterBackfill>>
    /\ UNCHANGED <<second, writes>>

\* DROP TABLE IF EXISTS documents CASCADE; CREATE TABLE documents (...); the index,
\* the trigger function and the trigger.  On an exception: rollback, raise, close
SchemaExecute ==
    /\ pc = "cs_execute"
    /\ \E ok \in BOOLEAN :
          IF ok
          THEN /\ pending' = <<[kind |-> "recreate"]>>
               /\ pc' = "cs_commit"
               /\ UNCHANGED <<documents, conn, outcome>>
          ELSE Raise
    /\ UNCHANGED <<hasEmbeddingCol, op, locals, cbLog, ret, docs0, opened, fetches, embedCalls,
                   afterBackfill>>
    /\ UNCHANGED <<second, writes>>

\* get_cursor: conn.commit() after the with body; the created table has the
\* columns id, filename, doc_type, title, content, content_tsv, created_at
SchemaCommit ==
    /\ pc = "cs_commit"
    /\ \E ok \in BOOLEAN :
          IF ok
          THEN /\ documents' = Commit(documents, pending)
               /\ hasEmbeddingCol' = FALSE
               /\ pending' = <<>>
               /\ conn' = conn - 1
               /\ pc' = "done"
               /\ outcome' = "returned"
          ELSE /\ Raise
               /\ UNCHANGED hasEmbeddingCol
    /\ UNCHANGED <<op, locals, cbLog, ret, docs0, opened, fetches, embedCalls, afterBackfill>>
    /\ UNCHANGED <<second, writes>>

\* ------------------------------------------------------------ the system
\* the call is over and its caller goes on: the call's locals are gone, and the
\* history of the next call starts empty
NextCall ==
    /\ pc = "done"
    /\ pc' = "idle"
    /\ afterBackfill' = (op.name = "add_embeddings_to_existing" /\ outcome = "returned")
    /\ op' = NoOp
    /\ outcome' = "none"
    /\ ret' = <<>>
    /\ cbLog' = <<>>
    /\ docs0' = <<>>
    /\ opened' = 0 /\ fetches' = 0 /\ embedCalls' = 0
    /\ all_documents' = <<>> /\ lens' = <<0, 0>> /\ batch' = <<>> /\ i' = 0 /\ total' = 0
    /\ processed' = 0 /\ rows' = <<>> /\ embeddings' = <<>>
    /\ writes' = NoWrites
    /\ UNCHANGED <<documents, hasEmbeddingCol, conn, pending, second>>

\* an empty table that has the embedding column the statements name
Init ==
    /\ documents = <<>>
    /\ hasEmbeddingCol = TRUE
    /\ pc = "idle"
    /\ op = NoOp
    /\ conn = 0
    /\ pending = <<>>
    /\ all_documents = <<>>
    /\ lens = <<0, 0>>
    /\ batch = <<>>
    /\ i = 0
    /\ total = 0
    /\ processed = 0
    /\ rows = <<>>
    /\ embeddings = <<>>
    /\ cbLog = <<>>
    /\ outcome = "none"
    /\ ret = <<>>
    /\ docs0 = <<>>
    /\ opened = 0
    /\ fetches = 0
    /\ embedCalls = 0
    /\ afterBackfill = FALSE
    /\ second = SecondIdle
    /\ writes = NoWrites

Next ==
    \/ NextCall
    \/ InsertDocuments
    \/ InsertEnter
    \/ InsertConnect
    \/ InsertEmbed
    \/ InsertExecute
    \/ InsertCommit
    \/ InsertClose
    \/ LoadLogseqVault
    \/ LoadLoop
    \/ LoadCallback
    \/ LoadReturn
    \/ AddEmbeddingsToExisting
    \/ BackfillConnect
    \/ BackfillCount
    \/ BackfillFetch
    \/ BackfillEmbed
    \/ BackfillUpdate
    \/ BackfillCommit
    \/ BackfillCallback
    \/ Query
    \/ QueryEmbed
    \/ QueryConnect
    \/ QueryExecute
    \/ CreateSchema
    \/ SchemaConnect
    \/ SchemaExecute
    \/ SchemaCommit

Spec == Init /\ [][Next]_vars

\* hybrid_search applied to every corpus of up to MaxCorpus rows
Corpora ==
    UNION {[1..n -> [doc_type : DocTypes, embedding : {NULL, 1}]] : n \in 0..MaxCorpus}

InitSearch ==
    /\ documents \in Corpora
    /\ hasEmbeddingCol = TRUE
    /\ pc = "idle"
    /\ op = NoOp
    /\ conn = 0
    /\ pending = <<>>
    /\ all_documents = <<>>
    /\ lens = <<0, 0>>
    /\ batch = <<>>
    /\ i = 0
    /\ total = 0
    /\ processed = 0
    /\ rows = <<>>
    /\ embeddings = <<>>
    /\ cbLog = <<>>
    /\ outcome = "none"
    /\ ret = <<>>
    /\ docs0 = <<>>
    /\ opened = 0
    /\ fetches = 0
    /\ embedCalls = 0
    /\ afterBackfill = FALSE
    /\ second = SecondIdle
    /\ writes = NoWrites

NextSearch ==
    \/ HybridSearch
    \/ NextCall

SpecSearch == InitSearch /\ [][NextSearch]_vars

\* ------------------------------------------------------------- properties
\* ceil(n / b)
CeilDiv(n, b) == (n + b - 1) \div b

\* documents without an embedding when the call started
NullAtStart == Len(NullIds(docs0))

Backfilling == op.name = "add_embeddings_to_existing"
Loading == op.name = "load_logseq_vault"
Returned == pc = "done" /\ outcome = "returned"

\* C1: a backfill over N > 0 embedding-less documents with batch size b calls the
\* progress callback with (min(k*b, N), N) for k = 1, 2, ..., the k-th call after
\* the k-th batch is committed, and ceil(N/b) times by the time it returns.
C1_BackfillProgress ==
    (Backfilling /\ op.cb) =>
        /\ \A k \in 1..Len(cbLog) :
              cbLog[k] = <<Min(k * op.batch_size, NullAtStart), NullAtStart>>
        /\ cbLog # <<>> =>
              NullAtStart - Len(NullIds(documents)) >= cbLog[Len(cbLog)][1]
        /\ (Returned /\ NullAtStart > 0) =>
              /\ Len(cbLog) = CeilDiv(NullAtStart, op.batch_size)
              /\ cbLog[Len(cbLog)] = <<NullAtStart, NullAtStart>>

C1_Witness ==
    /\ Backfilling /\ Returned
    /\ op.batch_size = 2
    /\ cbLog = <<<<2, 3>>, <<3, 3>>>>

\* C2: a backfill that follows a backfill that returned is a no-op: it ends at
\* the count, fetches nothing, requests no embedding, writes and commits
\* nothing, calls no callback and leaves the table as it was.
C2_SecondBackfillNoOp ==
    (Backfilling /\ afterBackfill) =>
        /\ pc \in {"bf_connect", "bf_count", "done"}
        /\ fetches = 0
        /\ embedCalls = 0
        /\ cbLog = <<>>
        /\ pending = <<>>
        /\ documents = docs0

C2_Witness ==
    /\ Backfilling /\ afterBackfill /\ Returned
    /\ op.cb
    /\ Len(documents) = 2
    /\ opened = 1

\* C3: every row hybrid_search returns has a lexical match or a similarity
\* above 0.3; a row with neither (a NULL embedding counts as similarity 0) is
\* not returned.
C3_MatchOrAboveFloor ==
    (pc = "done" /\ op.name = "hybrid_search") =>
        \A k \in 1..Len(ret) :
            \/ op.lex[ret[k].id] # NoMatch
            \/ /\ documents[ret[k].id].embedding # NULL
               /\ op.sim[ret[k].id] > SimilarityFloor
               /\ ret[k].similarity > SimilarityFloor

C3_Witness ==
    /\ pc = "done" /\ op.name = "hybrid_search"
    /\ Len(documents) = 2
    /\ op.limit = 2
    /\ op.lex = <<NoMatch, NoMatch>>
    /\ documents[1].embedding # NULL /\ documents[2].embedding # NULL
    /\ op.sim = <<SimilarityFloor + 1, SimilarityFloor>>
    /\ Len(ret) = 1 /\ ret[1].id = 1

\* C4: with a doc_type given, every row hybrid_search returns has that doc_type.
C4_DocTypeFilters ==
    (pc = "done" /\ op.name = "hybrid_search" /\ op.doc_type # NoDocType) =>
        \A k \in 1..Len(ret) : ret[k].doc_type = op.doc_type

\* the count get_document_count() gives for a doc_type; a type with no row has
\* no entry
CountFor(t, d) ==
    IF d \in DOMAIN GetDocumentCount(t) THEN GetDocumentCount(t)[d] ELSE 0

\* C5: after load_logseq_vault returns from loading into an empty table, the
\* counts of get_document_count() are the returned pages and journals, they sum
\* to the returned total, and a type has an entry exactly when it has a file.
C5_CountsMatchReturn ==
    (Loading /\ Returned /\ docs0 = <<>>) =>
        /\ CountFor(documents, "page") = ret.pages
        /\ CountFor(documents, "journal") = ret.journals
        /\ CountFor(documents, "page") + CountFor(documents, "journal") = ret.total
        /\ DOMAIN GetDocumentCount(documents) \subseteq {"page", "journal"}
        /\ Len(documents) = ret.total

C5_Witness ==
    /\ Loading /\ Returned /\ docs0 = <<>>
    /\ op.with_embeddings /\ op.batch_size = 2
    /\ ret = [pages |-> 2, journals |-> 1, total |-> 3]
    /\ GetDocumentCount(documents) = [d \in {"page", "journal"} |->
                                        IF d = "page" THEN 2 ELSE 1]

\* the positions at which the thread of control holds an open connection
HoldingConnection ==
    {"ins_embed", "ins_insert", "ins_commit", "ins_close",
     "bf_count", "bf_fetch", "bf_embed", "bf_update", "bf_commit", "bf_callback",
     "q_execute", "cs_execute", "cs_commit"}

\* connections a call that returns has opened: one, but one per chunk for an
\* embedding-bearing load and none for an insert of no documents
ConnectionsOfCall ==
    CASE op.name = "insert_documents" -> IF batch = <<>> THEN 0 ELSE 1
      [] op.name = "load_logseq_vault" ->
            IF op.with_embeddings THEN CeilDiv(total, op.batch_size)
            ELSE IF total = 0 THEN 0 ELSE 1
      [] OTHER -> 1

\* C6 as stated: every public operation that returns has opened one connection
\* and has released it.
C6_OneConnectionPerCall ==
    Returned => (opened = 1 /\ conn = 0)

\* C6 as amended: a connection is open exactly while the call that opened it is
\* inside its try block, at most one at a time, and none after the call ends
\* by return or by exception; a call that returns has opened ConnectionsOfCall
\* connections.
C6_ConnectionsReleased ==
    /\ conn = (IF pc \in HoldingConnection THEN 1 ELSE 0)
    /\ pc \in {"idle", "done"} => (conn = 0 /\ pending = <<>>)
    /\ Returned => opened = ConnectionsOfCall

C6_Witness ==
    /\ pc = "done" /\ outcome = "raised"
    /\ Backfilling
    /\ opened = 1 /\ conn = 0
    /\ cbLog = <<<<2, 3>>>>
    /\ Len(NullIds(documents)) = 1

\* the rows of drafts ds as the load stores them: embedded exactly when asked
StoredAs(ds, t, we) ==
    /\ Len(t) = Len(ds)
    /\ \A k \in 1..Len(ds) :
          /\ t[k].doc_type = ds[k].doc_type
          /\ (t[k].embedding # NULL) = we

\* the table differs from the one the call started with by nothing
SameAsAtStart == documents = docs0

\* the exception that ended the load came from the progress callback, which
\* runs after its chunk is committed, not from the insert of a chunk
CallbackRaised ==
    /\ Loading /\ outcome = "raised" /\ op.cb
    /\ Len(cbLog) = (IF op.with_embeddings THEN i \div op.batch_size ELSE 0) + 1

\* drafts of the chunks the load had committed when it ended
CommittedDrafts ==
    IF CallbackRaised THEN Min(i + op.batch_size, total) ELSE Min(i, total)

\* what is committed at any point of a call, and when it has raised
C7_Inv ==
    /\ Backfilling =>
          /\ Len(documents) = Len(docs0)
          /\ processed <= NullAtStart
          /\ NullIds(documents) = SubSeq(NullIds(docs0), processed + 1, NullAtStart)
          /\ \A id \in 1..Len(docs0) :
                docs0[id].embedding # NULL => documents[id] = docs0[id]
          /\ embedCalls <= CeilDiv(processed, op.batch_size) + 1
    /\ (Loading /\ outcome = "raised" /\ op.with_embeddings) =>
          /\ SubSeq(documents, 1, Len(docs0)) = docs0
          /\ StoredAs(SubSeq(all_documents, 1, CommittedDrafts),
                      SubSeq(documents, Len(docs0) + 1, Len(documents)), TRUE)
          /\ embedCalls <= CeilDiv(i, op.batch_size) + 1
    /\ (Loading /\ outcome = "raised" /\ ~op.with_embeddings /\ ~CallbackRaised) =>
          SameAsAtStart
    /\ (op.name = "insert_documents" /\ outcome = "raised") => SameAsAtStart
    /\ outcome = "raised" => (pc = "done" /\ conn = 0 /\ pending = <<>>)

\* the step by which a call raises
C7_Step ==
    (outcome = "none" /\ outcome' = "raised") =>
        /\ documents' = documents
        /\ pc' = "done" /\ conn' = 0 /\ pending' = <<>>
        /\ embedCalls' \in {embedCalls, embedCalls + 1}
        /\ fetches' \in {fetches, fetches + 1}
        /\ opened' = opened

\* C7: an exception ends the call at once: the step that raises commits nothing,
\* drops the uncommitted changes and closes the connection, and nothing is
\* tried again.  What was committed before stays: a backfill has embedded the
\* first `processed` embedding-less rows and only them, a load that fails in
\* the insert of a chunk has stored the drafts of the chunks before it and only
\* them, and an insert_documents that raises has stored nothing.
C7_FailedBatchNotCommitted == [](C7_Inv) /\ [][C7_Step]_vars

C7_Witness ==
    /\ Backfilling /\ pc = "done" /\ outcome = "raised"
    /\ op.batch_size = 1
    /\ NullAtStart = 3
    /\ processed = 1
    /\ embedCalls = 2
    /\ Len(NullIds(documents)) = 2

\* the uncommitted UPDATEs of a backfill
C8_Inv ==
    \A k \in 1..Len(pending) :
        pending[k].kind = "update" =>
            /\ Backfilling
            /\ documents[pending[k].id].embedding = NULL
            /\ pending[k].embedding # NULL
            /\ \A j \in 1..Len(pending) :
                  (j # k /\ pending[j].kind = "update") => pending[j].id # pending[k].id

\* how a step may change the committed rows
C8_Step ==
    op.name # "create_schema" =>
        /\ Len(documents') >= Len(documents)
        /\ \A id \in 1..Len(documents) :
              documents'[id] # documents[id] =>
                  /\ Backfilling
                  /\ documents[id].embedding = NULL
                  /\ documents'[id].embedding # NULL
                  /\ documents'[id].doc_type = documents[id].doc_type

\* C8: outside create_schema no row is removed and a row changes only by a
\* backfill setting its NULL embedding, its other columns kept; a backfill's
\* UPDATEs go to rows whose embedding is NULL, one UPDATE per row.
C8_EmbeddingWrittenOnce == [](C8_Inv) /\ [][C8_Step]_vars

C8_Witness ==
    /\ Backfilling /\ Returned
    /\ Len(docs0) = 3
    /\ docs0[1].embedding # NULL /\ docs0[2].embedding = NULL
    /\ docs0[3].embedding = NULL
    /\ documents[2].embedding # NULL /\ documents[3].embedding # NULL
    /\ documents[1] = docs0[1]

\* C9: a load with embeddings calls the callback once per chunk, after the
\* chunk's insert is committed, with (min(k*b, total), total); a load without
\* embeddings calls it once, after the single insert, with (total, total); and
\* what a load that returns has stored does not depend on the callback.
C9_LoadProgress ==
    Loading =>
        /\ (op.cb /\ op.with_embeddings) =>
              /\ \A k \in 1..Len(cbLog) :
                    cbLog[k] = <<Min(k * op.batch_size, total), total>>
              /\ \A k \in 2..Len(cbLog) : cbLog[k][1] > cbLog[k - 1][1]
              /\ Len(cbLog) <= CeilDiv(Len(documents) - Len(docs0), op.batch_size)
              /\ Returned => Len(cbLog) = CeilDiv(total, op.batch_size)
        /\ (op.cb /\ ~op.with_embeddings) =>
              /\ cbLog \in {<<>>, <<<<total, total>>>>}
              /\ Returned => cbLog = <<<<total, total>>>>
        /\ ~op.cb => cbLog = <<>>
        /\ cbLog # <<>> => Len(documents) - Len(docs0) >= cbLog[Len(cbLog)][1]
        /\ Returned =>
              /\ SubSeq(documents, 1, Len(docs0)) = docs0
              /\ StoredAs(all_documents,
                          SubSeq(documents, Len(docs0) + 1, Len(documents)),
                          op.with_embeddings)

C9_Witness ==
    /\ Loading /\ Returned
    /\ op.cb /\ op.with_embeddings /\ op.batch_size = 2
    /\ cbLog = <<<<2, 3>>, <<3, 3>>>>
    /\ Len(documents) = 3

\* the steps of a running backfill: its loop is synchronous, each statement
\* runs when the one before it has completed
BackfillStep ==
    \/ BackfillConnect
    \/ BackfillCount
    \/ BackfillFetch
    \/ BackfillEmbed
    \/ BackfillUpdate
    \/ BackfillCommit
    \/ BackfillCallback

\* the tables the inserts can leave: any rows, each with or without an embedding
Tables ==
    UNION {[1..n -> [doc_type : DocTypes, embedding : {NULL} \cup Vectors]] : n \in 0..MaxDocs}

InitBackfill ==
    /\ documents \in Tables
    /\ hasEmbeddingCol = TRUE
    /\ pc = "idle"
    /\ op = NoOp
    /\ conn = 0
    /\ pending = <<>>
    /\ all_documents = <<>>
    /\ lens = <<0, 0>>
    /\ batch = <<>>
    /\ i = 0
    /\ total = 0
    /\ processed = 0
    /\ rows = <<>>
    /\ embeddings = <<>>
    /\ cbLog = <<>>
    /\ outcome = "none"
    /\ ret = <<>>
    /\ docs0 = <<>>
    /\ opened = 0
    /\ fetches = 0
    /\ embedCalls = 0
    /\ afterBackfill = FALSE
    /\ second = SecondIdle
    /\ writes = NoWrites

NextBackfill ==
    \/ AddEmbeddingsToExisting
    \/ BackfillStep
    \/ NextCall

\* backfills, one after another, over every table, each running on to its end
SpecBackfill == InitBackfill /\ [][NextBackfill]_vars /\ WF_vars(BackfillStep)

\* the fetches of a backfill and what it leaves when it returns
C10_Inv ==
    Backfilling =>
        /\ fetches <= CeilDiv(NullAtStart, op.batch_size) + 1
        /\ pc \in {"bf_embed", "bf_update", "bf_commit", "bf_callback"} =>
              (rows # <<>> /\ fetches <= CeilDiv(NullAtStart, op.batch_size))
        /\ Returned =>
              /\ fetches = (IF NullAtStart = 0 THEN 0
                            ELSE CeilDiv(NullAtStart, op.batch_size) + 1)
              /\ \A id \in 1..Len(docs0) : documents[id].embedding # NULL

\* C10: a backfill over N embedding-less documents ends; it goes on only from a
\* fetch that answered rows, it issues at most ceil(N/b) + 1 fetches, and when
\* it returns every document has an embedding.
C10_BackfillTerminates ==
    /\ [](C10_Inv)
    /\ (Backfilling /\ pc # "done") ~> (Backfilling /\ pc = "done")

C10_Witness ==
    /\ Backfilling /\ Returned
    /\ NullAtStart = 3 /\ op.batch_size = 2
    /\ fetches = 3
    /\ \A id \in 1..3 : documents[id].embedding # NULL

\* the steps of the second process's backfill
SecondStep ==
    \/ SecondConnect
    \/ SecondCount
    \/ SecondFetch
    \/ SecondEmbed
    \/ SecondUpdate
    \/ SecondCommit
    \/ SecondCallback

\* the tables a load without embeddings leaves: every row's embedding is NULL
\* (the backfill reads no doc_type: pages)
InitConcurrent ==
    /\ InitBackfill
    /\ \A id \in 1..Len(documents) :
          documents[id] = [doc_type |-> "page", embedding |-> NULL]

NextConcurrent ==
    \/ AddEmbeddingsToExisting
    \/ BackfillStep
    \/ SecondAddEmbeddingsToExisting
    \/ SecondStep

\* two processes, each calling add_embeddings_to_existing once on the same
\* table, their statements interleaved in every order
SpecConcurrent == InitConcurrent /\ [][NextConcurrent]_vars

\* the null-embedding rows a batch SELECT answers from table t
FirstNulls(t, b) == SubSeq(NullIds(t), 1, Min(b, Len(NullIds(t))))

\* a commit of the batch rs with vectors es wrote every row of the batch
WroteBatch(rs, es) ==
    \A k \in 1..Len(rs) :
        /\ documents'[rs[k]].embedding = es[k]
        /\ writes'[rs[k]] = writes[rs[k]] + 1

C11_Step ==
    /\ (pc = "bf_fetch" /\ pc' = "bf_embed") =>
          rows' = FirstNulls(documents, op.batch_size)
    /\ (second.pc = "bf_fetch" /\ second'.pc = "bf_embed") =>
          second'.rows = FirstNulls(documents, second.batch_size)
    /\ (pc = "bf_commit" /\ pc' \in {"bf_fetch", "bf_callback"}) =>
          WroteBatch(rows, embeddings)
    /\ (second.pc = "bf_commit" /\ second'.pc \in {"bf_fetch", "bf_callback"}) =>
          WroteBatch(second.rows, second.embeddings)

\* C11: two concurrent backfills take no row-level claim or lock: each run's
\* batch SELECT answers the first null-embedding rows of the committed table
\* whatever rows the other run has fetched and not yet committed, and each
\* run's commit writes every row it fetched, so both can fetch, embed and write
\* the same document.
C11_NoRowClaim == [][C11_Step]_vars

C11_Witness ==
    /\ Backfilling /\ Returned
    /\ second.outcome = "returned"
    /\ embedCalls >= 1 /\ processed >= 1 /\ second.processed >= 1
    /\ \E id \in 1..Len(documents) :
          /\ docs0[id].embedding = NULL
          /\ writes[id] = 2

\* the next statement of the call in progress names the embedding column
NamesEmbeddingColumn ==
    \/ pc = "ins_insert" /\ op.with_embeddings
    \/ pc = "bf_count"
    \/ pc = "q_execute" /\ EmbedsQuery(op.name)

\* C12: after create_schema() the document table has a nullable embedding
\* column (beside id, filename, doc_type, title, content, the lexical-search
\* column and created_at), so that a load with embeddings, a backfill, a
\* semantic_search and a hybrid_search never reach their statement on a table
\* without the column.
C12_SchemaHasEmbeddingColumn ==
    /\ (op.name = "create_schema" /\ Returned) => hasEmbeddingCol
    /\ NamesEmbeddingColumn => hasEmbeddingCol
====
